---- MODULE Spec2Model ----
(***************************************************************************)
(* GangSTR expansion-aware realignment and read classification             *)
(* (src/src/realignment.cpp).                                              *)
(*                                                                         *)
(* Strings are sequences of one-letter strings; the C++ index s.at(x-1)    *)
(* is s[x] here.  The score matrix is a function from 0..rows-1 to         *)
(* functions from 0..cols-1 to integers.                                   *)
(***************************************************************************)
EXTENDS Integers, Sequences, FiniteSets, TLC

VARIABLES
  \* configuration (realignment.h, not part of the sources at hand)
  MATCH_SCORE, MISMATCH_SCORE, GAP_SCORE, MATCH_PERC_THRESHOLD,
  \* process-wide slack margin, written by expansion_aware_realign
  MARGIN,
  \* arguments of the call in progress
  seq, pre_flank, post_flank, motif, prefix_length,
  \* position of the call in progress
  pc,
  \* locals of expansion_aware_realign
  current_nCopy, current_score, current_pos, max_score, max_nCopy, max_pos,
  var_realign_string, trials,
  \* locals of smith_waterman / create_score_matrix
  score_matrix, i, j, csm_max_score, max_pos_row, max_pos_col,
  \* out-parameters and return values
  nCopy, pos, score, realign_ret, single_read_class, classify_ret,
  \* worker threads calling into the engine (one locus each)
  wpc, wseq, wres, wmargin_start, wmargin_end, wclass, wret

cfgVars == <<MATCH_SCORE, MISMATCH_SCORE, GAP_SCORE, MATCH_PERC_THRESHOLD>>
argVars == <<seq, pre_flank, post_flank, motif, prefix_length>>
realignVars == <<current_nCopy, current_score, current_pos, max_score,
                 max_nCopy, max_pos, var_realign_string, trials>>
swVars == <<score_matrix, i, j, csm_max_score, max_pos_row, max_pos_col>>
outVars == <<nCopy, pos, score, realign_ret, single_read_class, classify_ret>>
workerVars == <<wpc, wseq, wres, wmargin_start, wmargin_end, wclass, wret>>
vars == <<cfgVars, MARGIN, argVars, pc, realignVars, swVars, outVars, workerVars>>

----------------------------------------------------------------------------
(* Bounds of the model *)

\* longest read of the exhaustively enumerated reads
MaxReadLen == 3
\* classifier inputs drawn directly (SpecClassify)
MaxClassifyLen == 10
MaxClassifyPos == 9
MaxClassifyCopies == 1
MaxClassifyScore == 6
\* copy numbers looked at when a claim quantifies over "the true copy number"
MaxTrueCopies == 4

Bases == {"A", "C", "T"}

RECURSIVE SeqsOfLen(_)
SeqsOfLen(n) ==
  IF n = 0 THEN {<< >>}
  ELSE {Append(s, b) : s \in SeqsOfLen(n - 1), b \in Bases}

RECURSIVE SeqsUpTo(_)
SeqsUpTo(n) == IF n = 0 THEN SeqsOfLen(0) ELSE SeqsOfLen(n) \cup SeqsUpTo(n - 1)

Str4A == <<"A", "A", "A", "A">>
Str4T == <<"T", "T", "T", "T">>

\* loci: reference flanks and motif
LocusCA == [pre |-> Str4A, post |-> Str4T, motif |-> <<"C", "A">>]
LocusC == [pre |-> Str4A, post |-> Str4A, motif |-> <<"C">>]
LocusCAT == [pre |-> <<"A", "A">>, post |-> <<"A", "A">>, motif |-> <<"C", "A", "T">>]
Loci == {LocusCA, LocusC}

\* scenario reads of the specification, longer than MaxReadLen
ReadEnclosing == Str4A \o <<"C", "A", "C", "A", "C", "A">> \o Str4T
ReadPreflankShort == <<"A", "A", "C", "A", "C", "A">>
ReadPreflankLong == Str4A \o <<"C", "C">>
ReadRotated == <<"T", "C", "A", "T", "C">>
Scenarios ==
  { [locus |-> LocusCA, read |-> ReadEnclosing],
    [locus |-> LocusCA, read |-> ReadPreflankShort],
    [locus |-> LocusC, read |-> ReadPreflankLong],
    [locus |-> LocusCAT, read |-> ReadRotated] }

Inputs ==
  {[locus |-> l, read |-> r] : l \in Loci, r \in SeqsUpTo(MaxReadLen)}
  \cup Scenarios

\* <<MATCH_SCORE, MISMATCH_SCORE, GAP_SCORE>>: signed integers
ScoreSchemes == {<<3, -1, -3>>, <<1, -1, -1>>, <<-1, 1, 2>>}
\* MATCH_PERC_THRESHOLD as the literal <<numerator, denominator>> in (0,1]
\* that the header holds; the code works with the double nearest to it
Thresholds == {<<1, 2>>, <<1, 3>>, <<1, 1>>}

----------------------------------------------------------------------------
(* Pure helpers *)

RECURSIVE Repeat(_, _)
\* realignment.cpp:43-45, motif written k times
Repeat(m, k) == IF k <= 0 THEN << >> ELSE m \o Repeat(m, k - 1)

\* realignment.cpp:41-47
Hypothesis(pre, m, k, post) == pre \o Repeat(m, k) \o post

(* realignment.cpp:175 computes the threshold in double precision:          *)
(* MATCH_PERC_THRESHOLD * seq.size() rounded to a double, that times         *)
(* MATCH_SCORE rounded to a double, the result truncated toward zero.  A     *)
(* double is kept here as [mant, exp], the value mant * 2^exp, mant a        *)
(* natural number written as a sequence of limbs, least significant first.  *)

\* bits of a limb; a limb times a factor below 2^17 stays a machine integer
LimbBits == 13
\* bits of the significand of an IEEE-754 double
MantissaBits == 53

LimbBase == 2 ^ LimbBits

RECURSIVE NatLimbs(_)
\* the limbs of a natural number
NatLimbs(x) == IF x = 0 THEN << >> ELSE <<x % LimbBase>> \o NatLimbs(x \div LimbBase)

RECURSIVE LimbsNat(_)
\* the natural number of (few) limbs
LimbsNat(a) == IF a = << >> THEN 0 ELSE a[1] + LimbBase * LimbsNat(Tail(a))

RECURSIVE Canon(_)
\* leading zero limbs dropped
Canon(a) ==
  IF a = << >> THEN a
  ELSE IF a[Len(a)] = 0 THEN Canon(SubSeq(a, 1, Len(a) - 1)) ELSE a

RECURSIVE BitLenNat(_)
BitLenNat(x) == IF x = 0 THEN 0 ELSE 1 + BitLenNat(x \div 2)

\* number of significant bits of a canonical limb sequence
BitLen(a) ==
  IF a = << >> THEN 0 ELSE (Len(a) - 1) * LimbBits + BitLenNat(a[Len(a)])

RECURSIVE MulCarry(_, _, _, _)
MulCarry(a, n, k, carry) ==
  IF k > Len(a) THEN NatLimbs(carry)
  ELSE LET t == a[k] * n + carry
       IN  <<t % LimbBase>> \o MulCarry(a, n, k + 1, t \div LimbBase)

\* a times the natural number n
MulSmall(a, n) == Canon(MulCarry(a, n, 1, 0))

RECURSIVE DivFrom(_, _, _, _)
\* long division by d from limb k downwards: [q, r]
DivFrom(a, d, k, rem) ==
  IF k = 0 THEN [q |-> << >>, r |-> rem]
  ELSE LET t == rem * LimbBase + a[k]
           rest == DivFrom(a, d, k - 1, t % d)
       IN  [q |-> Append(rest.q, t \div d), r |-> rest.r]

\* quotient (canonical) and remainder of a by the natural number d
DivSmall(a, d) ==
  LET res == DivFrom(a, d, Len(a), 0)
  IN  [q |-> Canon(res.q), r |-> res.r]

\* x * 2^sh for a natural number x below 2^18
ShiftLeftNat(x, sh) ==
  [k \in 1..(sh \div LimbBits) |-> 0] \o NatLimbs(x * 2 ^ (sh % LimbBits))

\* a div 2^sh
ShiftRight(a, sh) ==
  LET w == sh \div LimbBits
      t == sh % LimbBits
  IN  Canon([x \in 1..(IF Len(a) > w THEN Len(a) - w ELSE 0) |->
               (a[x + w] \div 2 ^ t)
               + (IF x + w + 1 <= Len(a)
                  THEN (a[x + w + 1] % 2 ^ t) * 2 ^ (LimbBits - t) ELSE 0)])

\* bit k of a (bit 0 the least significant)
BitOf(a, k) ==
  IF (k \div LimbBits) + 1 > Len(a) THEN 0
  ELSE (a[(k \div LimbBits) + 1] \div 2 ^ (k % LimbBits)) % 2

\* some bit below bit sh is set
AnyBitBelow(a, sh) ==
  \/ \E x \in 1..Len(a) : x <= sh \div LimbBits /\ a[x] # 0
  \/ /\ (sh \div LimbBits) + 1 <= Len(a)
     /\ a[(sh \div LimbBits) + 1] % 2 ^ (sh % LimbBits) # 0

RECURSIVE AddOne(_)
AddOne(a) ==
  IF a = << >> THEN <<1>>
  ELSE IF a[1] + 1 < LimbBase THEN <<a[1] + 1>> \o Tail(a)
  ELSE <<0>> \o AddOne(Tail(a))

\* the double nearest to mant * 2^exp (plus a nonzero fraction below the last
\* bit of mant when sticky), ties to the even significand
RoundNearestEven(mant, exp, sticky) ==
  IF BitLen(mant) <= MantissaBits THEN [mant |-> mant, exp |-> exp]
  ELSE LET sh == BitLen(mant) - MantissaBits
           q == ShiftRight(mant, sh)
           up == /\ BitOf(mant, sh - 1) = 1
                 /\ (AnyBitBelow(mant, sh - 1) \/ sticky \/ BitOf(q, 0) = 1)
       IN  [mant |-> IF up THEN AddOne(q) ELSE q, exp |-> exp + sh]

\* the double a decimal literal num/den is compiled to (num, den below 2^17)
DoubleOf(num, den) ==
  LET sh == MantissaBits + 2 + BitLenNat(den)
      res == DivSmall(ShiftLeftNat(num, sh), den)
  IN  RoundNearestEven(res.q, -sh, res.r # 0)

\* double times an integer-valued double n, 0 <= n < 2^17
DoubleTimesNat(d, n) == RoundNearestEven(MulSmall(d.mant, n), d.exp, FALSE)

\* (int32_t) of a non-negative double: the fraction is dropped
TruncToNat(d) ==
  IF d.exp < 0 THEN LimbsNat(ShiftRight(d.mant, -d.exp))
  ELSE LimbsNat(d.mant) * 2 ^ d.exp

\* realignment.cpp:175 for a threshold literal t = <<num, den>>
ScoreThresholdOf(t, len, match) ==
  LET absMatch == IF match < 0 THEN -match ELSE match
      magnitude == TruncToNat(DoubleTimesNat(DoubleTimesNat(DoubleOf(t[1], t[2]), len),
                                             absMatch))
  IN  IF match < 0 THEN -magnitude ELSE magnitude

\* realignment.cpp:175
ScoreThreshold(len) == ScoreThresholdOf(MATCH_PERC_THRESHOLD, len, MATCH_SCORE)

\* variant: the factor 4 of the margin is lost
MarginOfNarrow(period) == period - 1

\* realignment.cpp:39
MarginOf(period) == 4 * period - 1

\* variants: one trial more, one trial fewer
TrialLimitInclusive(read_len, period) == (read_len \div period) + 3
TrialLimitShort(read_len, period) == (read_len \div period) + 1

\* realignment.cpp:40, the loop's exclusive upper limit
TrialLimit(read_len, period) == (read_len \div period) + 2

\* variant: the perfect score is taken one base short
IsPerfectOffByOne(sc, read_len) == sc = (read_len - 1) * MATCH_SCORE

\* realignment.cpp:56
IsPerfect(sc, read_len) == sc = read_len * MATCH_SCORE

\* realignment.cpp:51
Improves(cur, best) == cur > best

----------------------------------------------------------------------------
(* Smith-Waterman scoring *)

\* realignment.cpp:78, rows x cols matrix of zeros
ZeroMatrix(rows, cols) == [r \in 0..(rows - 1) |-> [c \in 0..(cols - 1) |-> 0]]

\* variant: the running maximum starts at the diagonal score, not at zero
calc_scoreNoFloor(r, c, seq1, seq2, m) ==
  LET similarity == IF seq1[r] = seq2[c] THEN MATCH_SCORE ELSE MISMATCH_SCORE
      diag_score == m[r - 1][c - 1] + similarity
      up_score == m[r - 1][c] + GAP_SCORE
      s2 == IF up_score > diag_score THEN up_score ELSE diag_score
      left_score == m[r][c - 1] + GAP_SCORE
      s3 == IF left_score > s2 THEN left_score ELSE s2
  IN  [m EXCEPT ![r][c] = s3]

\* realignment.cpp:129-149: the value written to cell (r, c)
calc_score(r, c, seq1, seq2, m) ==
  LET similarity == IF seq1[r] = seq2[c] THEN MATCH_SCORE ELSE MISMATCH_SCORE
      diag_score == m[r - 1][c - 1] + similarity
      s1 == IF diag_score > 0 THEN diag_score ELSE 0
      up_score == m[r - 1][c] + GAP_SCORE
      s2 == IF up_score > s1 THEN up_score ELSE s1
      left_score == m[r][c - 1] + GAP_SCORE
      s3 == IF left_score > s2 THEN left_score ELSE s2
  IN  [m EXCEPT ![r][c] = s3]

\* realignment.cpp:108, a cell replaces the running maximum
BeatsMax(cell, best) == cell > best

\* realignment.cpp:100-104: locals of create_score_matrix before the loops.
\* The loops visit interior cells only; with no interior cell the row
\* counter runs straight to rows.
FillStart(rows, cols, m) ==
  [m |-> m, r |-> IF cols > 1 THEN 1 ELSE rows, c |-> 1,
   best |-> 0, row |-> -1, col |-> -1]

\* realignment.cpp:103-114: one iteration of the inner loop at (st.r, st.c)
CellStep(st, seq1, seq2) ==
  LET cols == Len(seq2) + 1
      m2 == calc_score(st.r, st.c, seq1, seq2, st.m)
      v == m2[st.r][st.c]
      hit == BeatsMax(v, st.best)
  IN  [m |-> m2,
       r |-> IF st.c + 1 < cols THEN st.r ELSE st.r + 1,
       c |-> IF st.c + 1 < cols THEN st.c + 1 ELSE 1,
       best |-> IF hit THEN v ELSE st.best,
       row |-> IF hit THEN st.r ELSE st.row,
       col |-> IF hit THEN st.c ELSE st.col]

\* variant: position 0 instead of the sentinel -1 when nothing aligned
MatrixResultZeroSentinel(best, row, col) ==
  IF row = -1 \/ col = -1 THEN <<0, 0>> ELSE <<row, best>>

\* realignment.cpp:115-122: <<start_pos, current_score>> of create_score_matrix
MatrixResult(best, row, col) ==
  IF row = -1 \/ col = -1 THEN <<-1, 0>> ELSE <<row, best>>

RECURSIVE FillAll(_, _, _)
\* realignment.cpp:103-114, both loops run to completion
FillAll(st, seq1, seq2) ==
  IF st.r >= Len(seq1) + 1 THEN st ELSE FillAll(CellStep(st, seq1, seq2), seq1, seq2)

\* realignment.cpp:95-123
create_score_matrix(seq1, seq2) ==
  LET st == FillAll(FillStart(Len(seq1) + 1, Len(seq2) + 1,
                              ZeroMatrix(Len(seq1) + 1, Len(seq2) + 1)),
                    seq1, seq2)
  IN  MatrixResult(st.best, st.row, st.col)

\* realignment.cpp:83, row of the best cell turned into an offset
OffsetOf(start_pos, seq2) == start_pos - Len(seq2)

\* realignment.cpp:66-86: [pos, score]
smith_waterman(seq1, seq2) ==
  LET res == create_score_matrix(seq1, seq2)
  IN  [pos |-> OffsetOf(res[1], seq2), score |-> res[2]]

----------------------------------------------------------------------------
(* Expansion-aware search over copy numbers *)

\* variant: the winning copy number is not recorded with the winning score
TrialStepStaleCopy(b, k, sw, read_len) ==
  LET upd == sw.score > b.max_score
  IN  [max_score |-> IF upd THEN sw.score ELSE b.max_score,
       max_nCopy |-> b.max_nCopy,
       max_pos |-> IF upd THEN sw.pos ELSE b.max_pos,
       stop |-> sw.score = read_len * MATCH_SCORE]

\* realignment.cpp:48-58: one trial folded into the best-so-far record
TrialStep(b, k, sw, read_len) ==
  LET upd == Improves(sw.score, b.max_score)
  IN  [max_score |-> IF upd THEN sw.score ELSE b.max_score,
       max_nCopy |-> IF upd THEN k ELSE b.max_nCopy,
       max_pos |-> IF upd THEN sw.pos ELSE b.max_pos,
       stop |-> IsPerfect(sw.score, read_len)]

RECURSIVE SearchFrom(_, _, _, _, _, _)
\* realignment.cpp:40-59
SearchFrom(b, k, s, pre, post, m) ==
  IF ~(k < TrialLimit(Len(s), Len(m))) THEN b
  ELSE LET b2 == TrialStep(b, k, smith_waterman(Hypothesis(pre, m, k, post), s), Len(s))
       IN  IF b2.stop THEN b2 ELSE SearchFrom(b2, k + 1, s, pre, post, m)

\* realignment.cpp:26-64: [nCopy, pos, score]; the write of MARGIN (line 39)
\* is the caller's action
expansion_aware_realign(s, pre, post, m) ==
  LET b == SearchFrom([max_score |-> 0, max_nCopy |-> 0, max_pos |-> 0, stop |-> FALSE],
                      0, s, pre, post, m)
  IN  [nCopy |-> b.max_nCopy, pos |-> b.max_pos, score |-> b.max_score]

----------------------------------------------------------------------------
(* Read classification *)

\* realignment.cpp:167 and 170, with the value of MARGIN the test read
InStrRange(p, start_str, end_str, margin) ==
  (p >= start_str - margin) /\ (p <= end_str + margin)

\* realignment.cpp:189
Encloses(start_pos, end_pos, start_str, end_str) ==
  start_pos < start_str /\ end_pos > end_str

\* variant: a geometry matching no class is reported as SR_UNKNOWN
classifyDefaultUnknown(read_len, period, start_pos, nc, sc, plen, m_start, m_end) ==
  LET end_pos == start_pos + read_len - 1
      end_str == plen + nc * period
      start_in_str == (start_pos >= plen - m_start) /\ (start_pos <= end_str + m_start)
      end_in_str == (end_pos >= plen - m_end) /\ (end_pos <= end_str + m_end)
  IN  IF sc < ScoreThreshold(read_len) \/ nc = 0 THEN [ok |-> TRUE, class |-> "SR_UNKNOWN"]
      ELSE IF start_in_str /\ end_in_str THEN [ok |-> TRUE, class |-> "SR_IRR"]
      ELSE IF start_in_str /\ ~end_in_str THEN [ok |-> TRUE, class |-> "SR_POSTFLANK"]
      ELSE IF ~start_in_str /\ end_in_str THEN [ok |-> TRUE, class |-> "SR_PREFLANK"]
      ELSE IF start_pos < plen /\ end_pos > end_str
           THEN [ok |-> TRUE, class |-> "SR_ENCLOSING"]
      ELSE [ok |-> TRUE, class |-> "SR_UNKNOWN"]

\* variant: the two flank classes are exchanged
classifySwapFlanks(read_len, period, start_pos, nc, sc, plen, m_start, m_end) ==
  LET end_pos == start_pos + read_len - 1
      end_str == plen + nc * period
      start_in_str == (start_pos >= plen - m_start) /\ (start_pos <= end_str + m_start)
      end_in_str == (end_pos >= plen - m_end) /\ (end_pos <= end_str + m_end)
  IN  IF sc < ScoreThreshold(read_len) \/ nc = 0 THEN [ok |-> TRUE, class |-> "SR_UNKNOWN"]
      ELSE IF start_in_str /\ end_in_str THEN [ok |-> TRUE, class |-> "SR_IRR"]
      ELSE IF start_in_str /\ ~end_in_str THEN [ok |-> TRUE, class |-> "SR_PREFLANK"]
      ELSE IF ~start_in_str /\ end_in_str THEN [ok |-> TRUE, class |-> "SR_POSTFLANK"]
      ELSE IF start_pos < plen /\ end_pos > end_str
           THEN [ok |-> TRUE, class |-> "SR_ENCLOSING"]
      ELSE [ok |-> FALSE, class |-> "NONE"]

\* realignment.cpp:151-195: [ok, class]; class "NONE" is an output left
\* unwritten.  m_start and m_end are the values of MARGIN read by the tests
\* of lines 167 and 170.
classify_realigned_read(read_len, period, start_pos, nc, sc, plen, m_start, m_end) ==
  LET end_pos == start_pos + read_len - 1
      start_str == plen
      end_str == plen + nc * period
      start_in_str == InStrRange(start_pos, start_str, end_str, m_start)
      end_in_str == InStrRange(end_pos, start_str, end_str, m_end)
      score_threshold == ScoreThreshold(read_len)
  IN  IF sc < score_threshold \/ nc = 0 THEN [ok |-> TRUE, class |-> "SR_UNKNOWN"]
      ELSE IF start_in_str /\ end_in_str THEN [ok |-> TRUE, class |-> "SR_IRR"]
      ELSE IF start_in_str /\ ~end_in_str THEN [ok |-> TRUE, class |-> "SR_POSTFLANK"]
      ELSE IF ~start_in_str /\ end_in_str THEN [ok |-> TRUE, class |-> "SR_PREFLANK"]
      ELSE IF Encloses(start_pos, end_pos, start_str, end_str)
           THEN [ok |-> TRUE, class |-> "SR_ENCLOSING"]
      ELSE [ok |-> FALSE, class |-> "NONE"]

----------------------------------------------------------------------------
(* One realignment followed by its classification, cell by cell *)

Workers == {1, 2}
\* each worker genotypes its own locus; the motifs differ in length
WorkerLocus(w) == IF w = 1 THEN LocusCA ELSE LocusC
WorkerReads == {<<"C", "A">>, <<"A", "C", "C">>}

NoResult == [nCopy |-> 0, pos |-> 0, score |-> 0]

WorkersOff ==
  /\ wpc = [w \in Workers |-> "off"]
  /\ wseq = [w \in Workers |-> << >>]
  /\ wres = [w \in Workers |-> NoResult]
  /\ wmargin_start = [w \in Workers |-> 0]
  /\ wmargin_end = [w \in Workers |-> 0]
  /\ wclass = [w \in Workers |-> "NONE"]
  /\ wret = [w \in Workers |-> FALSE]

LocalsIdle ==
  /\ current_nCopy = 0 /\ current_score = 0 /\ current_pos = 0
  /\ max_score = 0 /\ max_nCopy = 0 /\ max_pos = 0
  /\ var_realign_string = << >> /\ trials = << >>
  /\ score_matrix = ZeroMatrix(1, 1) /\ i = 0 /\ j = 0
  /\ csm_max_score = 0 /\ max_pos_row = -1 /\ max_pos_col = -1

ConfigInit ==
  /\ \E sch \in ScoreSchemes :
       MATCH_SCORE = sch[1] /\ MISMATCH_SCORE = sch[2] /\ GAP_SCORE = sch[3]
  /\ MATCH_PERC_THRESHOLD \in Thresholds

\* the caller has a read and a locus and is about to call expansion_aware_realign
Init ==
  /\ ConfigInit
  /\ MARGIN = 0
  /\ \E inp \in Inputs :
       /\ seq = inp.read
       /\ pre_flank = inp.locus.pre
       /\ post_flank = inp.locus.post
       /\ motif = inp.locus.motif
       /\ prefix_length = Len(inp.locus.pre)
  /\ pc = "enter"
  /\ LocalsIdle
  /\ nCopy = 0 /\ pos = 0 /\ score = 0 /\ realign_ret = FALSE
  /\ single_read_class = "NONE" /\ classify_ret = FALSE
  /\ WorkersOff

\* realignment.cpp:31-40: locals, the shared margin, loop initialisation
RealignEnter ==
  /\ pc = "enter"
  /\ max_score' = 0 /\ max_nCopy' = 0 /\ max_pos' = 0
  /\ current_score' = 0 /\ current_pos' = 0
  /\ MARGIN' = MarginOf(Len(motif))
  /\ current_nCopy' = 0
  /\ pc' = "loop"
  /\ UNCHANGED <<cfgVars, argVars, var_realign_string, trials, swVars, outVars, workerVars>>

\* realignment.cpp:40-48 and 71-78, 100-102: the loop test passes, the
\* hypothesis is built and smith_waterman allocates the matrix
TrialBegin ==
  /\ pc = "loop"
  /\ current_nCopy < TrialLimit(Len(seq), Len(motif))
  /\ LET hyp == Hypothesis(pre_flank, motif, current_nCopy, post_flank)
         st == FillStart(Len(hyp) + 1, Len(seq) + 1, ZeroMatrix(Len(hyp) + 1, Len(seq) + 1))
     IN  /\ var_realign_string' = hyp
         /\ score_matrix' = st.m
         /\ i' = st.r /\ j' = st.c
         /\ csm_max_score' = st.best
         /\ max_pos_row' = st.row /\ max_pos_col' = st.col
  /\ trials' = Append(trials, current_nCopy)
  /\ pc' = "fill"
  /\ UNCHANGED <<cfgVars, MARGIN, argVars, current_nCopy, current_score, current_pos,
                 max_score, max_nCopy, max_pos, outVars, workerVars>>

\* realignment.cpp:103-114: one cell
FillCell ==
  /\ pc = "fill"
  /\ i < Len(var_realign_string) + 1
  /\ LET st == CellStep([m |-> score_matrix, r |-> i, c |-> j, best |-> csm_max_score,
                         row |-> max_pos_row, col |-> max_pos_col],
                        var_realign_string, seq)
     IN  /\ score_matrix' = st.m
         /\ i' = st.r /\ j' = st.c
         /\ csm_max_score' = st.best
         /\ max_pos_row' = st.row /\ max_pos_col' = st.col
  /\ UNCHANGED <<cfgVars, MARGIN, argVars, pc, realignVars, outVars, workerVars>>

\* realignment.cpp:115-122, 83-85, 51-58: the matrix is complete; its result
\* goes back through smith_waterman and is compared with the best so far
TrialEnd ==
  /\ pc = "fill"
  /\ ~(i < Len(var_realign_string) + 1)
  /\ LET res == MatrixResult(csm_max_score, max_pos_row, max_pos_col)
         sw == [pos |-> OffsetOf(res[1], seq), score |-> res[2]]
         b == TrialStep([max_score |-> max_score, max_nCopy |-> max_nCopy,
                         max_pos |-> max_pos, stop |-> FALSE],
                        current_nCopy, sw, Len(seq))
     IN  /\ current_pos' = sw.pos
         /\ current_score' = sw.score
         /\ max_score' = b.max_score
         /\ max_nCopy' = b.max_nCopy
         /\ max_pos' = b.max_pos
         /\ IF b.stop
            THEN pc' = "return" /\ current_nCopy' = current_nCopy
            ELSE pc' = "loop" /\ current_nCopy' = current_nCopy + 1
  /\ UNCHANGED <<cfgVars, MARGIN, argVars, var_realign_string, trials, swVars,
                 outVars, workerVars>>

\* realignment.cpp:40: the loop test fails
LoopExit ==
  /\ pc = "loop"
  /\ ~(current_nCopy < TrialLimit(Len(seq), Len(motif)))
  /\ pc' = "return"
  /\ UNCHANGED <<cfgVars, MARGIN, argVars, realignVars, swVars, outVars, workerVars>>

\* realignment.cpp:60-63
RealignReturn ==
  /\ pc = "return"
  /\ nCopy' = max_nCopy
  /\ score' = max_score
  /\ pos' = max_pos
  /\ realign_ret' = TRUE
  /\ pc' = "classify"
  /\ UNCHANGED <<cfgVars, MARGIN, argVars, realignVars, swVars, single_read_class,
                 classify_ret, workerVars>>

\* realignment.cpp:151-195, called with the realigner's outputs
Classify ==
  /\ pc = "classify"
  /\ LET res == classify_realigned_read(Len(seq), Len(motif), pos, nCopy, score,
                                        prefix_length, MARGIN, MARGIN)
     IN  /\ classify_ret' = res.ok
         /\ single_read_class' = IF res.ok THEN res.class ELSE single_read_class
  /\ pc' = "done"
  /\ UNCHANGED <<cfgVars, MARGIN, argVars, realignVars, swVars, nCopy, pos, score,
                 realign_ret, workerVars>>

Next ==
  \/ RealignEnter
  \/ TrialBegin
  \/ FillCell
  \/ TrialEnd
  \/ LoopExit
  \/ RealignReturn
  \/ Classify

Spec == Init /\ [][Next]_vars

----------------------------------------------------------------------------
(* The classifier on inputs of its own *)

\* any call of classify_realigned_read: the margin is whatever the last
\* realignment left in MARGIN
InitClassify ==
  /\ ConfigInit
  /\ MARGIN \in {MarginOf(Len(l.motif)) : l \in Loci}
  /\ seq \in {Repeat(<<"A">>, n) : n \in 0..MaxClassifyLen}
  /\ motif \in {l.motif : l \in Loci}
  /\ pre_flank = << >> /\ post_flank = << >>
  /\ prefix_length \in {0, Len(Str4A)}
  /\ pos \in (-MaxClassifyPos)..MaxClassifyPos
  /\ nCopy \in 0..MaxClassifyCopies
  /\ score \in 0..MaxClassifyScore
  /\ realign_ret = TRUE
  /\ pc = "classify"
  /\ LocalsIdle
  /\ single_read_class = "NONE" /\ classify_ret = FALSE
  /\ WorkersOff

NextClassify == Classify

SpecClassify == InitClassify /\ [][NextClassify]_vars

----------------------------------------------------------------------------
(* Several workers calling the engine, each for its own locus *)

InitWorkers ==
  /\ ConfigInit
  /\ MARGIN = 0
  /\ seq = << >> /\ pre_flank = << >> /\ post_flank = << >> /\ motif = << >>
  /\ prefix_length = 0
  /\ pc = "workers"
  /\ LocalsIdle
  /\ nCopy = 0 /\ pos = 0 /\ score = 0 /\ realign_ret = FALSE
  /\ single_read_class = "NONE" /\ classify_ret = FALSE
  /\ wpc = [w \in Workers |-> "idle"]
  /\ wseq = [w \in Workers |-> << >>]
  /\ wres = [w \in Workers |-> NoResult]
  /\ wmargin_start = [w \in Workers |-> 0]
  /\ wmargin_end = [w \in Workers |-> 0]
  /\ wclass = [w \in Workers |-> "NONE"]
  /\ wret = [w \in Workers |-> FALSE]

\* realignment.cpp:31-39: a worker enters expansion_aware_realign with a read
\* of its locus and writes the shared margin
WRealignEnter(w) ==
  /\ wpc[w] = "idle"
  /\ \E r \in WorkerReads : wseq' = [wseq EXCEPT ![w] = r]
  /\ MARGIN' = MarginOf(Len(WorkerLocus(w).motif))
  /\ wpc' = [wpc EXCEPT ![w] = "search"]
  /\ UNCHANGED <<cfgVars, argVars, pc, realignVars, swVars, outVars,
                 wres, wmargin_start, wmargin_end, wclass, wret>>

\* realignment.cpp:40-63: the search runs to its return
WRealignReturn(w) ==
  /\ wpc[w] = "search"
  /\ wres' = [wres EXCEPT ![w] =
       expansion_aware_realign(wseq[w], WorkerLocus(w).pre, WorkerLocus(w).post,
                               WorkerLocus(w).motif)]
  /\ wpc' = [wpc EXCEPT ![w] = "test_start"]
  /\ UNCHANGED <<cfgVars, MARGIN, argVars, pc, realignVars, swVars, outVars,
                 wseq, wmargin_start, wmargin_end, wclass, wret>>

\* realignment.cpp:167: classify_realigned_read reads MARGIN for the start test
WTestStart(w) ==
  /\ wpc[w] = "test_start"
  /\ wmargin_start' = [wmargin_start EXCEPT ![w] = MARGIN]
  /\ wpc' = [wpc EXCEPT ![w] = "test_end"]
  /\ UNCHANGED <<cfgVars, MARGIN, argVars, pc, realignVars, swVars, outVars,
                 wseq, wres, wmargin_end, wclass, wret>>

\* realignment.cpp:170: and again for the end test
WTestEnd(w) ==
  /\ wpc[w] = "test_end"
  /\ wmargin_end' = [wmargin_end EXCEPT ![w] = MARGIN]
  /\ wpc' = [wpc EXCEPT ![w] = "decide"]
  /\ UNCHANGED <<cfgVars, MARGIN, argVars, pc, realignVars, swVars, outVars,
                 wseq, wres, wmargin_start, wclass, wret>>

\* realignment.cpp:174-194: the decision, with the margins the tests read
WDecide(w) ==
  /\ wpc[w] = "decide"
  /\ LET res == classify_realigned_read(Len(wseq[w]), Len(WorkerLocus(w).motif),
                                        wres[w].pos, wres[w].nCopy, wres[w].score,
                                        Len(WorkerLocus(w).pre),
                                        wmargin_start[w], wmargin_end[w])
     IN  /\ wret' = [wret EXCEPT ![w] = res.ok]
         /\ wclass' = [wclass EXCEPT ![w] = IF res.ok THEN res.class ELSE wclass[w]]
  /\ wpc' = [wpc EXCEPT ![w] = "classified"]
  /\ UNCHANGED <<cfgVars, MARGIN, argVars, pc, realignVars, swVars, outVars,
                 wseq, wres, wmargin_start, wmargin_end>>

\* the worker takes its next read
WNextRead(w) ==
  /\ wpc[w] = "classified"
  /\ wpc' = [wpc EXCEPT ![w] = "idle"]
  /\ UNCHANGED <<cfgVars, MARGIN, argVars, pc, realignVars, swVars, outVars,
                 wseq, wres, wmargin_start, wmargin_end, wclass, wret>>

NextWorkers ==
  \E w \in Workers :
    \/ WRealignEnter(w)
    \/ WRealignReturn(w)
    \/ WTestStart(w)
    \/ WTestEnd(w)
    \/ WDecide(w)
    \/ WNextRead(w)

SpecWorkers == InitWorkers /\ [][NextWorkers]_vars

----------------------------------------------------------------------------
(* Properties *)

Returned == pc \in {"classify", "done"}

\* the scoring scheme of a local aligner: matches pay, mismatches and gaps cost
ProperScores == MATCH_SCORE > 0 /\ MISMATCH_SCORE < 0 /\ GAP_SCORE < 0

IsSubstring(s, t) ==
  \E o \in 0..(Len(t) - Len(s)) : \A x \in 1..Len(s) : t[o + x] = s[x]

HypothesisOf(k) == Hypothesis(pre_flank, motif, k, post_flank)

\* the trial with k copies scores len(read)*MATCH_SCORE
PerfectTrial(k) == smith_waterman(HypothesisOf(k), seq).score = Len(seq) * MATCH_SCORE

MinOf(S) == CHOOSE x \in S : \A y \in S : x <= y

\* the last trial of a search over 0..top that stops at its first perfect trial
LastTrialUpTo(top) ==
  IF \E k \in 0..top : PerfectTrial(k)
  THEN MinOf({k \in 0..top : PerfectTrial(k)})
  ELSE top

CountUp(last) == [x \in 1..(last + 1) |-> x - 1]

FloorCopies == Len(seq) \div Len(motif)

\* C1 (as stated): the trials are k = 0, 1, ... in increasing order, up to
\* floor(len(read)/period) + 2 inclusive unless an earlier trial was perfect
\* (looked at under a scoring scheme with MATCH_SCORE > 0 > MISMATCH_SCORE,
\* GAP_SCORE).
C1_TrialsThroughFloorPlusTwo ==
  (Returned /\ ProperScores) => trials = CountUp(LastTrialUpTo(FloorCopies + 2))

\* C1 (amended): the trials are k = 0, 1, ... in increasing order, up to
\* floor(len(read)/period) + 1 inclusive unless an earlier trial was perfect;
\* k = floor(len(read)/period) + 2 is never tried.
C1_TrialsThroughFloorPlusOne ==
  Returned => trials = CountUp(LastTrialUpTo(FloorCopies + 1))

C1_Witness ==
  /\ pc = "done"
  /\ Len(seq) > 0
  /\ \A k \in 0..(FloorCopies + 1) : ~PerfectTrial(k)
  /\ trials = CountUp(FloorCopies + 1)

IsScenarioOne ==
  /\ seq = ReadEnclosing
  /\ motif = <<"C", "A">> /\ pre_flank = Str4A /\ post_flank = Str4T
  /\ prefix_length = Len(Str4A)
  /\ ProperScores

\* C2 (as stated): the read AAAACACACATTTT at AAAA (CA)n TTTT realigns to
\* nCopy = 3 with the perfect score and is classified ENCLOSING.
C2_ScenarioOneEnclosing ==
  (IsScenarioOne /\ pc = "done") =>
    /\ realign_ret /\ nCopy = 3 /\ score = Len(seq) * MATCH_SCORE
    /\ classify_ret /\ single_read_class = "SR_ENCLOSING"

\* C2 (amended): the same read realigns to nCopy = 3 with the perfect score
\* at offset 0 and is classified IRR: both its ends, 0 and 13, lie within the
\* margin 7 of the repeat span [4, 10].
C2_ScenarioOneInRepeat ==
  (IsScenarioOne /\ Returned) =>
    /\ realign_ret /\ nCopy = 3 /\ score = Len(seq) * MATCH_SCORE /\ pos = 0
    /\ (pc = "done" => classify_ret /\ single_read_class = "SR_IRR")

C2_Witness ==
  IsScenarioOne /\ pc = "done" /\ nCopy = 3 /\ single_read_class = "SR_IRR"

\* C3 (as stated): every classification tests its positions against the
\* margin 4*len(motif) - 1 of the motif of that same call, whatever other
\* workers do in between.
C3_MarginOfOwnMotif ==
  \A w \in Workers :
    /\ (wpc[w] \in {"test_end", "decide", "classified"}
          => wmargin_start[w] = 4 * Len(WorkerLocus(w).motif) - 1)
    /\ (wpc[w] \in {"decide", "classified"}
          => wmargin_end[w] = 4 * Len(WorkerLocus(w).motif) - 1)

\* the classifier's inputs and the tests of its decision table, written out
ClStart == pos
ClEnd == pos + Len(seq) - 1
ClStartStr == prefix_length
ClEndStr == prefix_length + nCopy * Len(motif)
ClStartIn == ClStartStr - MARGIN <= ClStart /\ ClStart <= ClEndStr + MARGIN
ClEndIn == ClStartStr - MARGIN <= ClEnd /\ ClEnd <= ClEndStr + MARGIN
ClPasses == score >= ScoreThreshold(Len(seq)) /\ nCopy # 0
ClNoRow ==
  /\ ~ClStartIn /\ ~ClEndIn
  /\ ~(ClStart < ClStartStr /\ ClEnd > ClEndStr)
ClNoClass == ClPasses /\ ClNoRow
ClPassingRow ==
  CASE ClStartIn /\ ClEndIn -> "SR_IRR"
    [] ClStartIn /\ ~ClEndIn -> "SR_POSTFLANK"
    [] ~ClStartIn /\ ClEndIn -> "SR_PREFLANK"
    [] OTHER -> "SR_ENCLOSING"

\* C4: a call whose geometry matches no row of the decision table returns
\* failure and leaves the output class unwritten; every other call returns
\* success with the class of the first matching row.
C4_FailureIsExplicit ==
  pc = "done" =>
    LET passes == ClPasses
    IN  IF passes /\ ClNoRow
        THEN ~classify_ret /\ single_read_class = "NONE"
        ELSE /\ classify_ret
             /\ single_read_class = IF passes THEN ClPassingRow ELSE "SR_UNKNOWN"

C4_Witness ==
  pc = "done" /\ ClNoClass /\ ~classify_ret /\ single_read_class = "NONE"

\* C5 (as stated): a read that is an exact substring of the hypothesis with
\* k_true copies realigns to nCopy = k_true (looked at for non-empty reads
\* under a scoring scheme with MATCH_SCORE > 0 > MISMATCH_SCORE, GAP_SCORE).
C5_ReturnsTrueCopies ==
  (Returned /\ ProperScores /\ Len(seq) > 0) =>
    \A k_true \in 0..MaxTrueCopies :
      IsSubstring(seq, HypothesisOf(k_true)) => nCopy = k_true

ContainingCopies == {k \in 0..MaxTrueCopies : IsSubstring(seq, HypothesisOf(k))}

\* C5 (amended): with MATCH_SCORE > 0, MISMATCH_SCORE < 0 and GAP_SCORE < 0, a
\* read that is an exact substring of the hypothesis with k_true copies
\* realigns to the smallest copy number whose hypothesis contains the read,
\* provided that number is at most floor(len(read)/period) + 1; this is k_true
\* only when no hypothesis with fewer copies contains the read.
C5_ReturnsFewestCopies ==
  (Returned /\ ProperScores /\ ContainingCopies # {}
     /\ MinOf(ContainingCopies) <= FloorCopies + 1)
    => nCopy = MinOf(ContainingCopies)

C5_Witness ==
  /\ pc = "done" /\ ProperScores
  /\ ContainingCopies # {}
  /\ MinOf(ContainingCopies) = FloorCopies + 1
  /\ nCopy = FloorCopies + 1

ClPreflankGeometry ==
  /\ ClPasses /\ nCopy >= 1
  /\ ClStart < prefix_length
  /\ prefix_length <= ClEnd /\ ClEnd <= prefix_length + nCopy * Len(motif)

\* C6 (as stated): a read that starts inside pre_flank and ends inside the
\* repeat, with a passing score and nCopy >= 1, is classified PREFLANK.
C6_StartsInPreflankIsPreflank ==
  (pc = "done" /\ ClPreflankGeometry) =>
    classify_ret /\ single_read_class = "SR_PREFLANK"

\* C6 (amended): such a read is classified PREFLANK when it starts more than
\* MARGIN bases before the repeat (start_pos < prefix_length - MARGIN), and
\* IRR when it starts within MARGIN bases of it.
C6_PreflankBeyondMargin ==
  (pc = "done" /\ ClPreflankGeometry) =>
    /\ classify_ret
    /\ single_read_class =
         IF ClStart < prefix_length - MARGIN THEN "SR_PREFLANK" ELSE "SR_IRR"

C6_Witness ==
  /\ pc = "done" /\ ClPreflankGeometry
  /\ ClStart < prefix_length - MARGIN
  /\ single_read_class = "SR_PREFLANK"

\* C7: while the matrix is being filled, and afterwards, it has
\* (len(seq1)+1) x (len(seq2)+1) cells, none negative, and row 0 and column 0
\* hold zeros, for any signs of the three scores.
C7_CellsNonNegative ==
  Len(trials) > 0 =>
    /\ DOMAIN score_matrix = 0..Len(var_realign_string)
    /\ \A r \in DOMAIN score_matrix :
         /\ DOMAIN score_matrix[r] = 0..Len(seq)
         /\ \A c \in DOMAIN score_matrix[r] :
              /\ score_matrix[r][c] >= 0
              /\ (r = 0 \/ c = 0) => score_matrix[r][c] = 0

C7_Witness ==
  /\ pc = "fill" /\ i > 2 /\ j > 1
  /\ MISMATCH_SCORE < 0 /\ GAP_SCORE < 0
  /\ \E c \in 1..Len(seq) : var_realign_string[1] # seq[c] /\ score_matrix[1][c] = 0
  /\ \E r \in 1..2 : \E c \in 1..Len(seq) : score_matrix[r][c] > 0

\* C8: with MATCH_SCORE > 0, MISMATCH_SCORE < 0 and GAP_SCORE < 0 the returned
\* score is at most len(read)*MATCH_SCORE, and equals it exactly when the read
\* is a contiguous substring of the winning hypothesis.
C8_ScoreBound ==
  (Returned /\ ProperScores) =>
    /\ score <= Len(seq) * MATCH_SCORE
    /\ (score = Len(seq) * MATCH_SCORE <=> IsSubstring(seq, HypothesisOf(nCopy)))

C8_Witness ==
  /\ pc = "done" /\ ProperScores /\ Len(seq) > 1
  /\ nCopy > 0
  /\ score = Len(seq) * MATCH_SCORE
  /\ IsSubstring(seq, HypothesisOf(nCopy))

NoPositiveCell(m) == \A r \in DOMAIN m : \A c \in DOMAIN m[r] : m[r][c] <= 0

TrialHadNoAlignment(k) ==
  NoPositiveCell(FillAll(FillStart(Len(HypothesisOf(k)) + 1, Len(seq) + 1,
                                   ZeroMatrix(Len(HypothesisOf(k)) + 1, Len(seq) + 1)),
                         HypothesisOf(k), seq).m)

\* C9: a finished matrix with no cell above zero yields score 0 and start
\* position -1 (offset -1 - len(read) out of smith_waterman); when every trial
\* ended so, the realigner returns success with score 0 and the classifier
\* returns success with class UNKNOWN.
C9_NoAlignmentIsUnknown ==
  /\ (pc \in {"loop", "return"} /\ Len(trials) > 0 /\ NoPositiveCell(score_matrix))
       => (current_score = 0 /\ current_pos + Len(seq) = -1)
  /\ (Returned /\ \A x \in 1..Len(trials) : TrialHadNoAlignment(trials[x]))
       => /\ realign_ret /\ score = 0
          /\ (pc = "done" => classify_ret /\ single_read_class = "SR_UNKNOWN")

C9_Witness ==
  /\ pc = "done" /\ Len(seq) > 0 /\ ProperScores
  /\ Len(trials) > 1
  /\ \A x \in 1..Len(trials) : TrialHadNoAlignment(trials[x])
  /\ current_pos = -1 - Len(seq)
  /\ single_read_class = "SR_UNKNOWN"

RECURSIVE ExhaustiveFrom(_, _)
\* the search over every k of the range, no early exit: a trial replaces the
\* best only when it scores strictly more
ExhaustiveFrom(b, k) ==
  IF k > FloorCopies + 1 THEN b
  ELSE LET sw == smith_waterman(HypothesisOf(k), seq)
       IN  ExhaustiveFrom(IF sw.score > b[3] THEN <<k, sw.pos, sw.score>> ELSE b, k + 1)

\* C10: with MATCH_SCORE > 0, MISMATCH_SCORE < 0 and GAP_SCORE < 0 the early
\* exit changes nothing: the returned (nCopy, position, score) is that of the
\* search over every trial with no early exit.
C10_EarlyExitSameResult ==
  (Returned /\ ProperScores) => <<nCopy, pos, score>> = ExhaustiveFrom(<<0, 0, 0>>, 0)

C10_Witness ==
  /\ pc = "done" /\ ProperScores /\ Len(seq) > 0
  /\ score = Len(seq) * MATCH_SCORE
  /\ Len(trials) < FloorCopies + 2
  /\ <<nCopy, pos, score>> = ExhaustiveFrom(<<0, 0, 0>>, 0)

====
